---- MODULE Spec2Model ----
(***************************************************************************)
(* Soil and plant monitor: the SoilReading and PlantReading records, their *)
(* attribute validators, and the scoring methods computed from a reading   *)
(* and the threshold configuration.                                        *)
(*                                                                         *)
(* Number representation.  The Float columns hold decimal quantities; the  *)
(* model keeps every Float quantity as an integer number of TENTHS         *)
(* (ph 7.5 is 75, a stress score of 10 is 100, a score of 92.0 is 920).    *)
(* The Integer columns (leaf colour channels) and the soil quality score,  *)
(* which the code computes over Python ints, are plain integers.           *)
(* Only the columns that a validator or a scoring method reads are kept.   *)
(***************************************************************************)
EXTENDS Integers, Sequences, FiniteSets, TLC

VARIABLES
    soil,     \* the SoilReading's columns
    other,    \* a second SoilReading, scored under the same configuration
    plant,    \* the PlantReading's columns
    config,   \* the Config class attributes the scoring methods read
    call,     \* the last operation invoked: [method, key, value]
    ret,      \* what the last method call returned
    err,      \* the exception the last operation raised, or NoError
    nops      \* how many operations have run

vars == <<soil, other, plant, config, call, ret, err, nops>>

(***************************************************************************)
(* Bounds of the model.                                                    *)
(***************************************************************************)
\* attribute assignments per behaviour
MaxAssign == 2
\* how many tenths (or channel steps) around each edge the inputs are sampled
Margin == 1
\* largest nutrient magnitude fed to get_npk_ratio
MaxPpm == 8

(***************************************************************************)
(* Exceptions and validator results.                                       *)
(***************************************************************************)
NoError == [kind |-> "", args |-> <<>>]

\* raise ValueError("<message>"): one positional argument, the message, kept as
\* the sequence of its words
ValueError(words) == [kind |-> "ValueError", args |-> <<words>>]

Return(v) == [raised |-> FALSE, value |-> v, error |-> NoError]
Raise(e) == [raised |-> TRUE, value |-> 0, error |-> e]

(***************************************************************************)
(* SoilReading validators (soil_data.py).                                  *)
(***************************************************************************)
\* faulty variant: the upper boundary itself is rejected
validate_ph_upper_exclusive(ph) ==
    IF ph < 0 \/ ph >= 140
    THEN Raise(ValueError(<<"pH", "must", "be", "between", "0", "and", "14">>))
    ELSE Return(ph)

validate_ph(ph) ==
    IF ph < 0 \/ ph > 140
    THEN Raise(ValueError(<<"pH", "must", "be", "between", "0", "and", "14">>))
    ELSE Return(ph)

validate_moisture(moisture) ==
    IF moisture < 0 \/ moisture > 1000
    THEN Raise(ValueError(<<"Moisture", "percentage", "must", "be", "between",
                            "0", "and", "100">>))
    ELSE Return(moisture)

validate_temperature(temp) ==
    IF temp < -500 \/ temp > 800
    THEN Raise(ValueError(<<"Temperature", "must", "be", "between", "-50", "and",
                            "80", "Celsius">>))
    ELSE Return(temp)

(***************************************************************************)
(* PlantReading validators (plant_data.py).                                *)
(***************************************************************************)
validate_height(height) ==
    IF height < 0 \/ height > 10000
    THEN Raise(ValueError(<<"Height", "must", "be", "between", "0", "and",
                            "1000", "cm">>))
    ELSE Return(height)

validate_rgb(value) ==
    IF value < 0 \/ value > 255
    THEN Raise(ValueError(<<"RGB", "values", "must", "be", "between", "0", "and",
                            "255">>))
    ELSE Return(value)

validate_stress_scores(score) ==
    IF score < 0 \/ score > 100
    THEN Raise(ValueError(<<"Stress", "scores", "must", "be", "between", "0",
                            "and", "10">>))
    ELSE Return(score)

\* faulty variant: the message of validate_stress_scores copied with its range
validate_health_score_stress_message(score) ==
    IF score < 0 \/ score > 1000
    THEN Raise(ValueError(<<"Health", "score", "must", "be", "between", "0",
                            "and", "10">>))
    ELSE Return(score)

validate_health_score(score) ==
    IF score < 0 \/ score > 1000
    THEN Raise(ValueError(<<"Health", "score", "must", "be", "between", "0",
                            "and", "100">>))
    ELSE Return(score)

(***************************************************************************)
(* Attribute assignment.  A column with a @validates method stores what    *)
(* the method returns and stores nothing when it raises; a column without  *)
(* one stores the value as given.                                          *)
(***************************************************************************)
SoilKeys ==
    {"nitrogen", "phosphorus", "potassium", "ph_level", "moisture_percent",
     "temperature_celsius", "salinity_level"}

SoilValidate(key, value) ==
    CASE key = "ph_level" -> validate_ph(value)
      [] key = "moisture_percent" -> validate_moisture(value)
      [] key = "temperature_celsius" -> validate_temperature(value)
      [] OTHER -> Return(value)

PlantNumericKeys ==
    {"height_cm", "leaf_color_r", "leaf_color_g", "leaf_color_b",
     "leaf_chlorophyll_index", "water_stress_level", "heat_stress_score",
     "drought_stress_score", "growth_rate_cm_per_week", "health_score"}

PlantTextKeys == {"disease_symptoms", "nutrient_deficiency_signs"}

PlantFlagKeys == {"pest_presence"}

PlantValidate(key, value) ==
    CASE key = "height_cm" -> validate_height(value)
      [] key \in {"leaf_color_r", "leaf_color_g", "leaf_color_b"} ->
            validate_rgb(value)
      [] key \in {"water_stress_level", "heat_stress_score",
                  "drought_stress_score"} -> validate_stress_scores(value)
      [] key = "health_score" -> validate_health_score(value)
      [] OTHER -> Return(value)

(***************************************************************************)
(* Threshold configuration (config/settings.py).  Each attribute is read   *)
(* from the environment when the class is created, with the default given  *)
(* there.                                                                  *)
(***************************************************************************)
DefaultConfig ==
    [SOIL_PH_MIN |-> 60, SOIL_PH_MAX |-> 75,
     SOIL_MOISTURE_MIN |-> 300, SOIL_MOISTURE_MAX |-> 800,
     SOIL_TEMP_MIN |-> 150, SOIL_TEMP_MAX |-> 300,
     NITROGEN_MIN |-> 200, PHOSPHORUS_MIN |-> 100, POTASSIUM_MIN |-> 150]

\* a configuration with every threshold overridden through the environment
OverriddenConfig ==
    [SOIL_PH_MIN |-> 55, SOIL_PH_MAX |-> 70,
     SOIL_MOISTURE_MIN |-> 200, SOIL_MOISTURE_MAX |-> 600,
     SOIL_TEMP_MIN |-> 100, SOIL_TEMP_MAX |-> 350,
     NITROGEN_MIN |-> 300, PHOSPHORUS_MIN |-> 50, POTASSIUM_MIN |-> 250]

Configs == {DefaultConfig, OverriddenConfig}

(***************************************************************************)
(* SoilReading methods (soil_data.py).                                     *)
(***************************************************************************)
Max(a, b) == IF a >= b THEN a ELSE b
Min(a, b) == IF a <= b THEN a ELSE b

\* Python's round(num / den * 100, 1), in tenths: the nearest tenth of
\* 100 * num / den, a tie going to the even tenth.  den # 0.
\* faulty variant: the quotient is cut, not rounded
round1_truncating(num, den) ==
    LET n == IF den < 0 THEN 0 - 1000 * num ELSE 1000 * num
        d == IF den < 0 THEN 0 - den ELSE den
    IN  n \div d

round1(num, den) ==
    LET n == IF den < 0 THEN 0 - 1000 * num ELSE 1000 * num
        d == IF den < 0 THEN 0 - den ELSE den
        q == n \div d
        r == n - q * d
    IN  IF 2 * r > d \/ (2 * r = d /\ q % 2 = 1) THEN q + 1 ELSE q

get_npk_ratio(s) ==
    LET total == s.nitrogen + s.phosphorus + s.potassium
    IN  IF total = 0
        THEN <<0, 0, 0>>
        ELSE <<round1(s.nitrogen, total), round1(s.phosphorus, total),
               round1(s.potassium, total)>>

\* faulty variant: potassium compared with the phosphorus minimum
is_nutrient_deficient_wrong_minimum(s, c) ==
    LET d0 == <<>>
        d1 == IF s.nitrogen < c.NITROGEN_MIN THEN Append(d0, "nitrogen") ELSE d0
        d2 == IF s.phosphorus < c.PHOSPHORUS_MIN
              THEN Append(d1, "phosphorus") ELSE d1
        d3 == IF s.potassium < c.PHOSPHORUS_MIN
              THEN Append(d2, "potassium") ELSE d2
    IN  d3

is_nutrient_deficient(s, c) ==
    LET d0 == <<>>
        d1 == IF s.nitrogen < c.NITROGEN_MIN THEN Append(d0, "nitrogen") ELSE d0
        d2 == IF s.phosphorus < c.PHOSPHORUS_MIN
              THEN Append(d1, "phosphorus") ELSE d1
        d3 == IF s.potassium < c.POTASSIUM_MIN
              THEN Append(d2, "potassium") ELSE d2
    IN  d3

\* faulty variant: a nitrogen value equal to its minimum is penalised
get_soil_quality_score_inclusive(s, c) ==
    LET s0 == 100
        s1 == IF s.ph_level < c.SOIL_PH_MIN \/ s.ph_level > c.SOIL_PH_MAX
              THEN s0 - 20 ELSE s0
        s2 == IF s.moisture_percent < c.SOIL_MOISTURE_MIN
                 \/ s.moisture_percent > c.SOIL_MOISTURE_MAX
              THEN s1 - 15 ELSE s1
        s3 == IF s.temperature_celsius < c.SOIL_TEMP_MIN
                 \/ s.temperature_celsius > c.SOIL_TEMP_MAX
              THEN s2 - 10 ELSE s2
        s4 == IF s.nitrogen <= c.NITROGEN_MIN THEN s3 - 15 ELSE s3
        s5 == IF s.phosphorus < c.PHOSPHORUS_MIN THEN s4 - 15 ELSE s4
        s6 == IF s.potassium < c.POTASSIUM_MIN THEN s5 - 15 ELSE s5
        s7 == IF s.salinity_level > 20 THEN s6 - 10 ELSE s6
    IN  Max(0, s7)

\* faulty variant: the salinity penalty is added, not subtracted
get_soil_quality_score_salinity_added(s, c) ==
    LET s0 == 100
        s1 == IF s.ph_level < c.SOIL_PH_MIN \/ s.ph_level > c.SOIL_PH_MAX
              THEN s0 - 20 ELSE s0
        s2 == IF s.moisture_percent < c.SOIL_MOISTURE_MIN
                 \/ s.moisture_percent > c.SOIL_MOISTURE_MAX
              THEN s1 - 15 ELSE s1
        s3 == IF s.temperature_celsius < c.SOIL_TEMP_MIN
                 \/ s.temperature_celsius > c.SOIL_TEMP_MAX
              THEN s2 - 10 ELSE s2
        s4 == IF s.nitrogen < c.NITROGEN_MIN THEN s3 - 15 ELSE s3
        s5 == IF s.phosphorus < c.PHOSPHORUS_MIN THEN s4 - 15 ELSE s4
        s6 == IF s.potassium < c.POTASSIUM_MIN THEN s5 - 15 ELSE s5
        s7 == IF s.salinity_level > 20 THEN s6 + 10 ELSE s6
    IN  Max(0, s7)

get_soil_quality_score(s, c) ==
    LET s0 == 100
        s1 == IF s.ph_level < c.SOIL_PH_MIN \/ s.ph_level > c.SOIL_PH_MAX
              THEN s0 - 20 ELSE s0
        s2 == IF s.moisture_percent < c.SOIL_MOISTURE_MIN
                 \/ s.moisture_percent > c.SOIL_MOISTURE_MAX
              THEN s1 - 15 ELSE s1
        s3 == IF s.temperature_celsius < c.SOIL_TEMP_MIN
                 \/ s.temperature_celsius > c.SOIL_TEMP_MAX
              THEN s2 - 10 ELSE s2
        s4 == IF s.nitrogen < c.NITROGEN_MIN THEN s3 - 15 ELSE s3
        s5 == IF s.phosphorus < c.PHOSPHORUS_MIN THEN s4 - 15 ELSE s4
        s6 == IF s.potassium < c.POTASSIUM_MIN THEN s5 - 15 ELSE s5
        s7 == IF s.salinity_level > 20 THEN s6 - 10 ELSE s6
    IN  Max(0, s7)

(***************************************************************************)
(* PlantReading methods (plant_data.py).                                   *)
(***************************************************************************)
\* faulty variant: the result is capped at 100 but not floored at 0
calculate_health_score_no_floor(p) ==
    LET b0 == 1000
        b1 == b0 - p.water_stress_level * 5
        b2 == b1 - p.heat_stress_score * 3
        b3 == b2 - p.drought_stress_score * 3
        b4 == IF p.disease_symptoms # "" THEN b3 - 200 ELSE b3
        b5 == IF p.pest_presence THEN b4 - 150 ELSE b4
        b6 == IF p.nutrient_deficiency_signs # "" THEN b5 - 150 ELSE b5
        b7 == IF p.leaf_chlorophyll_index > 400 THEN b6 + 50
              ELSE IF p.leaf_chlorophyll_index < 200 THEN b6 - 100 ELSE b6
        b8 == IF p.growth_rate_cm_per_week < 5 THEN b7 - 100
              ELSE IF p.growth_rate_cm_per_week > 20 THEN b7 + 50 ELSE b7
    IN  Min(1000, b8)

\* faulty variant: a chlorophyll index of exactly 40 earns the bonus
calculate_health_score_chlorophyll_inclusive(p) ==
    LET b0 == 1000
        b1 == b0 - p.water_stress_level * 5
        b2 == b1 - p.heat_stress_score * 3
        b3 == b2 - p.drought_stress_score * 3
        b4 == IF p.disease_symptoms # "" THEN b3 - 200 ELSE b3
        b5 == IF p.pest_presence THEN b4 - 150 ELSE b4
        b6 == IF p.nutrient_deficiency_signs # "" THEN b5 - 150 ELSE b5
        b7 == IF p.leaf_chlorophyll_index >= 400 THEN b6 + 50
              ELSE IF p.leaf_chlorophyll_index < 200 THEN b6 - 100 ELSE b6
        b8 == IF p.growth_rate_cm_per_week < 5 THEN b7 - 100
              ELSE IF p.growth_rate_cm_per_week > 20 THEN b7 + 50 ELSE b7
    IN  Max(0, Min(1000, b8))

calculate_health_score(p) ==
    LET b0 == 1000
        b1 == b0 - p.water_stress_level * 5
        b2 == b1 - p.heat_stress_score * 3
        b3 == b2 - p.drought_stress_score * 3
        b4 == IF p.disease_symptoms # "" THEN b3 - 200 ELSE b3
        b5 == IF p.pest_presence THEN b4 - 150 ELSE b4
        b6 == IF p.nutrient_deficiency_signs # "" THEN b5 - 150 ELSE b5
        b7 == IF p.leaf_chlorophyll_index > 400 THEN b6 + 50
              ELSE IF p.leaf_chlorophyll_index < 200 THEN b6 - 100 ELSE b6
        b8 == IF p.growth_rate_cm_per_week < 5 THEN b7 - 100
              ELSE IF p.growth_rate_cm_per_week > 20 THEN b7 + 50 ELSE b7
    IN  Max(0, Min(1000, b8))

\* faulty variant: the method stores its result in health_score
plant_after_calculate_persisting(p) ==
    [p EXCEPT !.health_score = calculate_health_score(p)]

\* what the columns hold once calculate_health_score has run: the method
\* assigns no attribute
plant_after_calculate(p) == p

is_healthy(p, threshold) == p.health_score >= threshold

(***************************************************************************)
(* Readings as constructed, and the values fed to the operations.          *)
(***************************************************************************)
\* SoilReading(nitrogen=10, phosphorus=10, potassium=10, ph_level=7.0,
\*             moisture_percent=50, temperature_celsius=20, salinity_level=0.0)
BaseSoil ==
    [nitrogen |-> 100, phosphorus |-> 100, potassium |-> 100, ph_level |-> 70,
     moisture_percent |-> 500, temperature_celsius |-> 200, salinity_level |-> 0]

\* PlantReading(height_cm=50, water_stress_level=2, heat_stress_score=1,
\*              drought_stress_score=0, disease_symptoms='', pest_presence=False,
\*              leaf_chlorophyll_index=45, growth_rate_cm_per_week=1.5, ...)
BasePlant ==
    [height_cm |-> 500, leaf_color_r |-> 0, leaf_color_g |-> 0, leaf_color_b |-> 0,
     leaf_chlorophyll_index |-> 450, disease_symptoms |-> "",
     pest_presence |-> FALSE, water_stress_level |-> 20,
     nutrient_deficiency_signs |-> "", heat_stress_score |-> 10,
     drought_stress_score |-> 0, growth_rate_cm_per_week |-> 15,
     health_score |-> 1000]

\* the values within Margin outside, and on, the two ends of lo..hi
Edges(lo, hi) == ((lo - Margin) .. lo) \cup (hi .. (hi + Margin))

\* the values within Margin of x
Around(x) == (x - Margin) .. (x + Margin)

SoilInputs(key) ==
    CASE key = "ph_level" -> Edges(0, 140)
      [] key = "moisture_percent" -> Edges(0, 1000)
      [] key = "temperature_celsius" -> Edges(-500, 800)
      [] key = "salinity_level" -> {20, 20 + Margin}
      [] OTHER -> Around(0)

PlantInputs(key) ==
    CASE key = "height_cm" -> Edges(0, 10000)
      [] key \in {"leaf_color_r", "leaf_color_g", "leaf_color_b"} -> Edges(0, 255)
      [] key \in {"water_stress_level", "heat_stress_score",
                  "drought_stress_score"} -> Edges(0, 100)
      [] key = "health_score" -> Edges(0, 1000) \cup {700 - Margin, 700}
      [] key = "leaf_chlorophyll_index" -> {200 - Margin, 400 + Margin}
      [] key = "growth_rate_cm_per_week" -> {5 - Margin, 20 + Margin}
      [] key \in PlantTextKeys -> {"", "leaf spot"}
      [] OTHER -> BOOLEAN

PlantKeys == PlantNumericKeys \cup PlantTextKeys \cup PlantFlagKeys

Thresholds == {700, 1000}

(***************************************************************************)
(* Operations.                                                             *)
(***************************************************************************)
Called(method, key, value) == [method |-> method, key |-> key, value |-> value]

\* reading.<key> = value on a SoilReading
SetSoilAttr(key, value) ==
    LET r == SoilValidate(key, value)
    IN  /\ nops < MaxAssign
        /\ soil' = IF r.raised THEN soil ELSE [soil EXCEPT ![key] = r.value]
        /\ err' = r.error
        /\ call' = Called("SoilReading.__setattr__", key, value)
        /\ nops' = nops + 1
        /\ UNCHANGED <<other, plant, config, ret>>

\* reading.<key> = value on a PlantReading
SetPlantAttr(key, value) ==
    LET r == PlantValidate(key, value)
    IN  /\ nops < MaxAssign
        /\ plant' = IF r.raised THEN plant ELSE [plant EXCEPT ![key] = r.value]
        /\ err' = r.error
        /\ call' = Called("PlantReading.__setattr__", key, value)
        /\ nops' = nops + 1
        /\ UNCHANGED <<soil, other, config, ret>>

CalculateHealthScore ==
    /\ ret' = calculate_health_score(plant)
    /\ plant' = plant_after_calculate(plant)
    /\ err' = NoError
    /\ call' = Called("calculate_health_score", "", 0)
    /\ UNCHANGED <<soil, other, config, nops>>

IsHealthy(threshold) ==
    /\ ret' = is_healthy(plant, threshold)
    /\ err' = NoError
    /\ call' = Called("is_healthy", "", threshold)
    /\ UNCHANGED <<soil, other, plant, config, nops>>

GetNpkRatio ==
    /\ ret' = get_npk_ratio(soil)
    /\ err' = NoError
    /\ call' = Called("get_npk_ratio", "", 0)
    /\ UNCHANGED <<soil, other, plant, config, nops>>

IsNutrientDeficient ==
    /\ ret' = is_nutrient_deficient(soil, config)
    /\ err' = NoError
    /\ call' = Called("is_nutrient_deficient", "", 0)
    /\ UNCHANGED <<soil, other, plant, config, nops>>

GetSoilQualityScore ==
    /\ ret' = get_soil_quality_score(soil, config)
    /\ err' = NoError
    /\ call' = Called("get_soil_quality_score", "", 0)
    /\ UNCHANGED <<soil, other, plant, config, nops>>

\* both readings scored under the one configuration
ScoreBoth ==
    /\ ret' = <<get_soil_quality_score(soil, config),
                get_soil_quality_score(other, config)>>
    /\ err' = NoError
    /\ call' = Called("get_soil_quality_score x2", "", 0)
    /\ UNCHANGED <<soil, other, plant, config, nops>>

(***************************************************************************)
(* Spec: one SoilReading and one PlantReading, constructed and then        *)
(* assigned to and queried in any order.                                   *)
(***************************************************************************)
Constructed ==
    /\ call = Called("__init__", "", 0)
    /\ ret = <<>>
    /\ err = NoError
    /\ nops = 0

Init ==
    /\ soil = BaseSoil
    /\ other = BaseSoil
    /\ plant = BasePlant
    /\ config = DefaultConfig
    /\ Constructed

Next ==
    \/ \E key \in SoilKeys : \E value \in SoilInputs(key) : SetSoilAttr(key, value)
    \/ \E key \in PlantKeys : \E value \in PlantInputs(key) : SetPlantAttr(key, value)
    \/ CalculateHealthScore
    \/ \E threshold \in Thresholds : IsHealthy(threshold)

Spec == Init /\ [][Next]_vars

(***************************************************************************)
(* SpecSoilScore: a SoilReading constructed with values on and just        *)
(* outside the configured thresholds, then scored.                         *)
(***************************************************************************)
SoilAccepted(s) ==
    \A key \in SoilKeys : ~SoilValidate(key, s[key]).raised

SoilSamples(c) ==
    {s \in [nitrogen : (c.NITROGEN_MIN - Margin) .. c.NITROGEN_MIN,
            phosphorus : (c.PHOSPHORUS_MIN - Margin) .. c.PHOSPHORUS_MIN,
            potassium : (c.POTASSIUM_MIN - Margin) .. c.POTASSIUM_MIN,
            ph_level : Edges(c.SOIL_PH_MIN, c.SOIL_PH_MAX),
            moisture_percent : Edges(c.SOIL_MOISTURE_MIN, c.SOIL_MOISTURE_MAX),
            temperature_celsius : Edges(c.SOIL_TEMP_MIN, c.SOIL_TEMP_MAX),
            salinity_level : 20 .. (20 + Margin)] : SoilAccepted(s)}

ExampleSoils == {[BaseSoil EXCEPT !.salinity_level = x] : x \in {0, 20}}

InitSoilScore ==
    /\ config \in Configs
    /\ soil \in SoilSamples(config) \cup ExampleSoils
    /\ other = BaseSoil
    /\ plant = BasePlant
    /\ Constructed

NextSoilScore ==
    \/ GetSoilQualityScore
    \/ IsNutrientDeficient

SpecSoilScore == InitSoilScore /\ [][NextSoilScore]_vars

(***************************************************************************)
(* SpecSoilPair: two SoilReadings, each column either on a threshold or    *)
(* Margin past one, scored under one configuration.                        *)
(***************************************************************************)
PairSamples(c) ==
    {s \in [nitrogen : {c.NITROGEN_MIN - Margin, c.NITROGEN_MIN},
            phosphorus : {c.PHOSPHORUS_MIN - Margin, c.PHOSPHORUS_MIN},
            potassium : {c.POTASSIUM_MIN - Margin, c.POTASSIUM_MIN},
            ph_level : {c.SOIL_PH_MIN - Margin, c.SOIL_PH_MAX,
                        c.SOIL_PH_MAX + Margin},
            moisture_percent : {c.SOIL_MOISTURE_MIN - Margin, c.SOIL_MOISTURE_MIN,
                                c.SOIL_MOISTURE_MAX + Margin},
            temperature_celsius : {c.SOIL_TEMP_MIN - Margin, c.SOIL_TEMP_MAX,
                                   c.SOIL_TEMP_MAX + Margin},
            salinity_level : {20, 20 + Margin}] : SoilAccepted(s)}

InitSoilPair ==
    /\ config \in Configs
    /\ soil \in PairSamples(config)
    /\ other \in PairSamples(config)
    /\ plant = BasePlant
    /\ Constructed

NextSoilPair == ScoreBoth

SpecSoilPair == InitSoilPair /\ [][NextSoilPair]_vars

(***************************************************************************)
(* SpecNpk: a SoilReading with any small nutrient values (no validator     *)
(* guards them), then get_npk_ratio.                                       *)
(***************************************************************************)
PpmValues == (0 - MaxPpm) .. MaxPpm

InitNpk ==
    /\ config = DefaultConfig
    /\ soil \in {[BaseSoil EXCEPT !.nitrogen = n, !.phosphorus = p,
                                  !.potassium = k] :
                     n \in PpmValues, p \in PpmValues, k \in PpmValues}
    /\ other = BaseSoil
    /\ plant = BasePlant
    /\ Constructed

NextNpk == GetNpkRatio

SpecNpk == InitNpk /\ [][NextNpk]_vars

(***************************************************************************)
(* SpecPlantScore: a PlantReading constructed with accepted values, then   *)
(* calculate_health_score.                                                 *)
(***************************************************************************)
PlantAccepted(p) ==
    \A key \in PlantKeys : ~PlantValidate(key, p[key]).raised

StressSamples == {0, 5, 10, 20, 100}

PlantSamples ==
    {p \in [height_cm : {500}, leaf_color_r : {0}, leaf_color_g : {0},
            leaf_color_b : {0},
            leaf_chlorophyll_index : Around(200) \cup Around(400) \cup {450},
            disease_symptoms : {"", "leaf spot"},
            pest_presence : BOOLEAN,
            water_stress_level : StressSamples,
            nutrient_deficiency_signs : {"", "yellowing"},
            heat_stress_score : StressSamples,
            drought_stress_score : StressSamples,
            growth_rate_cm_per_week : Around(5) \cup Around(20) \cup {15},
            health_score : {1000}] : PlantAccepted(p)}

InitPlantScore ==
    /\ config = DefaultConfig
    /\ soil = BaseSoil
    /\ other = BaseSoil
    /\ plant \in PlantSamples
    /\ Constructed

NextPlantScore == CalculateHealthScore

SpecPlantScore == InitPlantScore /\ [][NextPlantScore]_vars

(***************************************************************************)
(* Properties.                                                             *)
(***************************************************************************)
\* the fixed inclusive bound of each bounded column, in the model's units
BoundedKeys ==
    {"ph_level", "moisture_percent", "temperature_celsius", "height_cm",
     "leaf_color_r", "leaf_color_g", "leaf_color_b", "water_stress_level",
     "heat_stress_score", "drought_stress_score", "health_score"}

FieldBound(key) ==
    CASE key = "ph_level" -> [min |-> 0, max |-> 140]
      [] key = "moisture_percent" -> [min |-> 0, max |-> 1000]
      [] key = "temperature_celsius" -> [min |-> -500, max |-> 800]
      [] key = "height_cm" -> [min |-> 0, max |-> 10000]
      [] key \in {"leaf_color_r", "leaf_color_g", "leaf_color_b"} ->
            [min |-> 0, max |-> 255]
      [] key \in {"water_stress_level", "heat_stress_score",
                  "drought_stress_score"} -> [min |-> 0, max |-> 100]
      [] key = "health_score" -> [min |-> 0, max |-> 1000]

InBound(key, v) == FieldBound(key).min <= v /\ v <= FieldBound(key).max

IsSoilSet(c) == c.method = "SoilReading.__setattr__"
IsPlantSet(c) == c.method = "PlantReading.__setattr__"
IsSet(c) == IsSoilSet(c) \/ IsPlantSet(c)

StoredInBound ==
    /\ \A key \in BoundedKeys \cap SoilKeys : InBound(key, soil[key])
    /\ \A key \in BoundedKeys \cap PlantKeys : InBound(key, plant[key])

\* an assignment to a bounded column stores an in-bound value unchanged and
\* raises nothing; it rejects an out-of-bound value with a ValueError and
\* leaves the stored value as it was
BoundedAssignStep ==
    (nops' # nops /\ call'.key \in BoundedKeys) =>
        LET key == call'.key
            before == IF IsSoilSet(call') THEN soil[key] ELSE plant[key]
            after == IF IsSoilSet(call') THEN soil'[key] ELSE plant'[key]
        IN  IF InBound(key, call'.value)
            THEN err' = NoError /\ after = call'.value
            ELSE err'.kind = "ValueError" /\ after = before

\* C1: after any sequence of assignments every stored bounded column lies in
\* its inclusive bound; an in-bound assignment (boundaries included) succeeds
\* and stores the value unchanged; an out-of-bound assignment fails with a
\* range error and leaves the previously stored value in place.
C1_BoundedFieldsValidated == []StoredInBound /\ [][BoundedAssignStep]_vars

\* the upper boundary of pH was stored, then an assignment one tenth above it
\* was rejected and the boundary value is still there
C1_Witness ==
    /\ IsSoilSet(call) /\ call.key = "ph_level" /\ call.value = 141
    /\ err.kind = "ValueError"
    /\ soil.ph_level = 140

\* the reading of the example: N = P = K = 10 ppm, pH 7.0, moisture 50,
\* temperature 20, salinity not above 2.0, under the default thresholds
IsExampleSoil ==
    /\ config = DefaultConfig
    /\ soil.nitrogen = 100 /\ soil.phosphorus = 100 /\ soil.potassium = 100
    /\ soil.ph_level = 70 /\ soil.moisture_percent = 500
    /\ soil.temperature_celsius = 200 /\ soil.salinity_level <= 20

\* C2 as stated: on the example reading is_nutrient_deficient returns
\* ['nitrogen'] and get_soil_quality_score returns 85.
C2_AsStated ==
    IsExampleSoil =>
        /\ call.method = "is_nutrient_deficient" => ret = <<"nitrogen">>
        /\ call.method = "get_soil_quality_score" => ret = 85

\* C2 amended: on the example reading potassium (10 < 15) is deficient too:
\* is_nutrient_deficient returns ['nitrogen', 'potassium'] and
\* get_soil_quality_score returns 100 - 15 - 15 = 70.
C2_ExampleScores ==
    IsExampleSoil =>
        /\ call.method = "is_nutrient_deficient" =>
               ret = <<"nitrogen", "potassium">>
        /\ call.method = "get_soil_quality_score" => ret = 70

C2_Witness ==
    /\ IsExampleSoil
    /\ call.method = "is_nutrient_deficient"
    /\ Len(ret) = 2

\* C3: no stored nitrogen, phosphorus or potassium value is negative, because
\* a negative assignment to any of them is rejected and not stored.
C3_NutrientsNonNegative ==
    /\ soil.nitrogen >= 0 /\ soil.phosphorus >= 0 /\ soil.potassium >= 0
    /\ (IsSoilSet(call) /\ call.key \in {"nitrogen", "phosphorus", "potassium"}
        /\ call.value < 0) => err # NoError

\* the words stating a column's allowed range in an error message
RangeWords(key) ==
    CASE key = "ph_level" -> <<"0", "14">>
      [] key = "moisture_percent" -> <<"0", "100">>
      [] key = "temperature_celsius" -> <<"-50", "80">>
      [] key = "height_cm" -> <<"0", "1000">>
      [] key \in {"leaf_color_r", "leaf_color_g", "leaf_color_b"} ->
            <<"0", "255">>
      [] key \in {"water_stress_level", "heat_stress_score",
                  "drought_stress_score"} -> <<"0", "10">>
      [] key = "health_score" -> <<"0", "100">>

StatesRange(words, key) ==
    \E i \in 1 .. Len(words) : \E j \in 1 .. Len(words) :
        /\ i < j
        /\ words[i] = RangeWords(key)[1]
        /\ words[j] = RangeWords(key)[2]

Rejected == IsSet(call) /\ err # NoError

\* C4 as stated: every rejected assignment fails with a ValidationError that
\* carries the field name, the rejected value and the allowed range.
C4_AsStated ==
    Rejected =>
        /\ err.kind = "ValidationError"
        /\ Len(err.args) = 3
        /\ err.args[1] = call.key
        /\ err.args[2] = call.value
        /\ err.args[3] = FieldBound(call.key)

\* C4 amended: every rejected assignment to a bounded column fails with an
\* error of the single kind ValueError, whose one item is a message that
\* states the allowed range (min and max) of that column; an assignment of a
\* number raises no other kind of error, and only an out-of-bound assignment
\* to a bounded column raises one.
C4_RejectionIsValueError ==
    /\ Rejected =>
        /\ call.key \in BoundedKeys
        /\ ~InBound(call.key, call.value)
        /\ err.kind = "ValueError"
        /\ Len(err.args) = 1
        /\ StatesRange(err.args[1], call.key)
    /\ (IsSet(call) /\ call.key \in BoundedKeys
        /\ ~InBound(call.key, call.value)) => err # NoError

C4_Witness ==
    /\ IsPlantSet(call) /\ call.key = "health_score" /\ call.value = 1001
    /\ err.kind = "ValueError"

\* the maximal-stress reading
IsMaximalStress ==
    /\ plant.water_stress_level = 100 /\ plant.heat_stress_score = 100
    /\ plant.drought_stress_score = 100 /\ plant.disease_symptoms # ""
    /\ plant.pest_presence /\ plant.nutrient_deficiency_signs # ""
    /\ plant.leaf_chlorophyll_index < 200 /\ plant.growth_rate_cm_per_week < 5

\* C5: for every PlantReading whose columns pass validation
\* calculate_health_score returns r with 0 <= r <= 100, and exactly 0.0 for
\* the maximal-stress reading.
C5_HealthScoreClamped ==
    call.method = "calculate_health_score" =>
        /\ 0 <= ret /\ ret <= 1000
        /\ IsMaximalStress => ret = 0

C5_Witness == call.method = "calculate_health_score" /\ IsMaximalStress

\* the health score formula of the specification, before clamping
HealthFormula(p) ==
    1000 - 5 * p.water_stress_level - 3 * p.heat_stress_score
         - 3 * p.drought_stress_score
         - (IF p.disease_symptoms # "" THEN 200 ELSE 0)
         - (IF p.pest_presence THEN 150 ELSE 0)
         - (IF p.nutrient_deficiency_signs # "" THEN 150 ELSE 0)
         + (CASE p.leaf_chlorophyll_index > 400 -> 50
              [] p.leaf_chlorophyll_index < 200 -> -100
              [] OTHER -> 0)
         + (CASE p.growth_rate_cm_per_week < 5 -> -100
              [] p.growth_rate_cm_per_week > 20 -> 50
              [] OTHER -> 0)

Clamp(lo, hi, x) == IF x < lo THEN lo ELSE IF x > hi THEN hi ELSE x

IsExamplePlant ==
    /\ plant.water_stress_level = 20 /\ plant.heat_stress_score = 10
    /\ plant.drought_stress_score = 0 /\ plant.disease_symptoms = ""
    /\ ~plant.pest_presence /\ plant.nutrient_deficiency_signs = ""
    /\ plant.leaf_chlorophyll_index = 450 /\ plant.growth_rate_cm_per_week = 15

\* C6: calculate_health_score equals the formula clamped to [0, 100], with no
\* adjustment for a chlorophyll index in 20..40 or a growth rate in 0.5..2.0
\* (ends included); the example reading gives 92.0.
C6_HealthScoreFormula ==
    call.method = "calculate_health_score" =>
        /\ ret = Clamp(0, 1000, HealthFormula(plant))
        /\ IsExamplePlant => ret = 920

C6_Witness ==
    /\ call.method = "calculate_health_score"
    /\ IsExamplePlant
    /\ ret = 920

\* the threshold checks a reading violates
Violated(s, c) ==
    {k \in {"ph"} : s.ph_level < c.SOIL_PH_MIN \/ s.ph_level > c.SOIL_PH_MAX}
    \cup {k \in {"moisture"} : s.moisture_percent < c.SOIL_MOISTURE_MIN
                               \/ s.moisture_percent > c.SOIL_MOISTURE_MAX}
    \cup {k \in {"temperature"} : s.temperature_celsius < c.SOIL_TEMP_MIN
                                  \/ s.temperature_celsius > c.SOIL_TEMP_MAX}
    \cup {k \in {"nitrogen"} : s.nitrogen < c.NITROGEN_MIN}
    \cup {k \in {"phosphorus"} : s.phosphorus < c.PHOSPHORUS_MIN}
    \cup {k \in {"potassium"} : s.potassium < c.POTASSIUM_MIN}
    \cup {k \in {"salinity"} : s.salinity_level > 20}

PenaltyOf(check) ==
    CASE check = "ph" -> 20
      [] check = "moisture" -> 15
      [] check = "temperature" -> 10
      [] check = "salinity" -> 10
      [] OTHER -> 15

RECURSIVE SumPenalties(_)
SumPenalties(checks) ==
    IF checks = {} THEN 0
    ELSE LET k == CHOOSE x \in checks : TRUE
         IN  PenaltyOf(k) + SumPenalties(checks \ {k})

\* C7: get_soil_quality_score equals max(0, 100 - P), P the sum of the
\* penalties of the violated checks; a value equal to a band edge or to a
\* nutrient minimum violates nothing.
C7_SoilScoreFormula ==
    call.method = "get_soil_quality_score" =>
        ret = Max(0, 100 - SumPenalties(Violated(soil, config)))

\* every band column on an edge, nitrogen on its minimum, potassium below
C7_Witness ==
    /\ call.method = "get_soil_quality_score"
    /\ soil.ph_level = config.SOIL_PH_MAX
    /\ soil.moisture_percent = config.SOIL_MOISTURE_MIN
    /\ soil.temperature_celsius = config.SOIL_TEMP_MAX
    /\ soil.nitrogen = config.NITROGEN_MIN
    /\ soil.potassium < config.POTASSIUM_MIN
    /\ soil.salinity_level = 20
    /\ ret = 85

\* C8: when the checks one reading violates are among those another violates
\* under the same configuration, the other's score is not higher; and no score
\* is below 0.
C8_SoilScoreMonotone ==
    call.method = "get_soil_quality_score x2" =>
        /\ ret[1] >= 0 /\ ret[2] >= 0
        /\ Violated(soil, config) \subseteq Violated(other, config) =>
               ret[2] <= ret[1]

C8_Witness ==
    /\ call.method = "get_soil_quality_score x2"
    /\ Violated(soil, config) = {"salinity"}
    /\ Violated(other, config) = {"salinity", "temperature", "ph"}
    /\ ret[2] < ret[1]

CalculateFrame == call'.method = "calculate_health_score" => plant' = plant

\* is_healthy answers differently after a step only if that step assigned
\* health_score
IsHealthyFrame ==
    (\E t \in Thresholds : is_healthy(plant', t) # is_healthy(plant, t)) =>
        (IsPlantSet(call') /\ call'.key = "health_score" /\ nops' # nops)

IsHealthyResult ==
    call.method = "is_healthy" => ret = (plant.health_score >= call.value)

\* C10: calculate_health_score changes no column of the PlantReading;
\* is_healthy(threshold) returns stored health_score >= threshold, and its
\* result changes only when health_score itself is assigned.
C10_HealthScoreNotPersisted ==
    /\ []IsHealthyResult
    /\ [][CalculateFrame]_vars
    /\ [][IsHealthyFrame]_vars

\* a stress column was assigned and the score calculated: the calculated score
\* is below the threshold while the stored one still passes it
C10_Witness ==
    /\ call.method = "calculate_health_score"
    /\ plant.water_stress_level = 100
    /\ ret < 700
    /\ is_healthy(plant, 700)

====
